---- MODULE Spec2Model ----
(***************************************************************************)
(* Model of nfd.rs (src/lib.rs): the DialogBuilder, the three public       *)
(* entry points and open_dialog, which encodes the two optional inputs as  *)
(* C strings, makes one native dialog call and decodes its outcome.        *)
(*                                                                         *)
(* open_dialog is modelled statement by statement (pc names the statement  *)
(* about to run); the native library is the environment: it is entered by  *)
(* NativeDialogEnter and returns through one of the NativeReturns* steps.  *)
(* Every native call open_dialog makes is appended to calls.               *)
(*                                                                         *)
(* Host strings are sequences of code points, native strings sequences of  *)
(* bytes; the model covers code points below 2048 (1- and 2-byte UTF-8).   *)
(***************************************************************************)
EXTENDS Integers, Sequences, FiniteSets, TLC

VARIABLES
    pc,                    \* statement of open_dialog about to run
    builder,               \* DialogBuilder { filter, default_path }
    dialog_type,           \* open_dialog's dialog_type argument
    filter_list,           \* open_dialog's filter_list argument (Option<&str>)
    default_path,          \* open_dialog's default_path argument (Option<&str>)
    filter_list_cstring,   \* local, deferred initialisation
    default_path_cstring,  \* local, deferred initialisation
    filter_list_ptr,       \* *const c_char
    default_path_ptr,      \* *const c_char
    out_path,              \* *mut c_char, the single-path output slot
    out_multiple,          \* nfdpathset_t, the collection output slot
    result,                \* nfdresult_t returned by the dialog call
    count,                 \* local of the multi-path branch
    i,                     \* loop index of the multi-path branch
    res,                   \* Vec<String> of the multi-path branch
    ret,                   \* value open_dialog returned
    calls,                 \* native calls made so far, in order
    native_path,           \* native heap: the path string a dialog allocated
    native_set,            \* native heap: the buffer of a path set
    native_error           \* native library's last-error buffer

vars == <<pc, builder, dialog_type, filter_list, default_path,
          filter_list_cstring, default_path_cstring, filter_list_ptr,
          default_path_ptr, out_path, out_multiple, result, count, i, res,
          ret, calls, native_path, native_set, native_error>>

(***************************************************************************)
(* Bounds                                                                  *)
(***************************************************************************)
\* longest filter / default-path string the caller passes
MaxStrLen == 2
\* most entries the native layer puts in a path set
MaxPaths == 2

SeqsUpTo(S, n) == UNION {[1..k -> S] : k \in 0..n}

\* code points of the caller's strings: NUL, 'a', U+00E9 (two bytes in UTF-8)
InputChars == {0, 97, 233}
HostStrings == SeqsUpTo(InputChars, MaxStrLen)

\* byte strings (without terminator) the native layer hands back as paths:
\* "a", and U+00E9 followed by the invalid byte 0xFF
NativePathChoices == {<<97>>, <<195, 169, 255>>}
\* byte strings (without terminator) the native layer reports as errors
ErrorMessages == {<<101>>, <<101, 255>>}

(***************************************************************************)
(* Values                                                                  *)
(***************************************************************************)
None == <<>>
Some(x) == <<x>>

NULL == "null"

Okay(path) == [variant |-> "Okay", path |-> path]
OkayMultiple(paths) == [variant |-> "OkayMultiple", paths |-> paths]
Cancel == [variant |-> "Cancel"]

Ok(v) == [tag |-> "Ok", val |-> v]
Err(e) == [tag |-> "Err", val |-> e]
NoReturn == [tag |-> "none"]

NulError == [variant |-> "NulError"]
NFDError_Error(msg) == [variant |-> "Error", msg |-> msg]

(***************************************************************************)
(* Conversions between host strings and native strings                     *)
(***************************************************************************)
RECURSIVE Utf8Bytes(_)
\* the bytes of a &str, as CString::new receives them
Utf8Bytes(s) ==
    IF s = <<>> THEN <<>>
    ELSE LET c == Head(s) IN
         (IF c < 128 THEN <<c>>
          ELSE <<192 + (c \div 64), 128 + (c % 64)>>)
         \o Utf8Bytes(Tail(s))

\* CString::new without the interior-NUL check
CStringNew_Unchecked(s) == [ok |-> TRUE, bytes |-> Utf8Bytes(s) \o <<0>>]

\* CString::new: fails on an interior zero byte, else appends the terminator
CStringNew(s) ==
    LET b == Utf8Bytes(s) IN
    IF \E k \in DOMAIN b : b[k] = 0
    THEN [ok |-> FALSE, bytes |-> <<>>]
    ELSE [ok |-> TRUE, bytes |-> b \o <<0>>]

RECURSIVE CStrFromPtr(_)
\* CStr::from_ptr: the bytes before the first zero byte
CStrFromPtr(b) ==
    IF b = <<>> \/ Head(b) = 0 THEN <<>>
    ELSE <<Head(b)>> \o CStrFromPtr(Tail(b))

RECURSIVE ToStringLossy(_)
\* to_string_lossy().into_owned(): UTF-8 decoding, U+FFFD for invalid bytes
ToStringLossy(b) ==
    IF b = <<>> THEN <<>>
    ELSE IF b[1] < 128 THEN <<b[1]>> \o ToStringLossy(Tail(b))
    ELSE IF b[1] \in 194..223 /\ Len(b) >= 2 /\ b[2] \in 128..191
         THEN <<(b[1] - 192) * 64 + (b[2] - 128)>> \o ToStringLossy(Tail(Tail(b)))
    ELSE <<65533>> \o ToStringLossy(Tail(b))

(***************************************************************************)
(* The locals that own the encoded buffers                                 *)
(***************************************************************************)
Uninit == [state |-> "uninit", bytes |-> <<>>, drops |-> 0]

\* a CString temporary that is dropped at the end of its statement
BindCString_Temporary(bytes) == [state |-> "dropped", bytes |-> bytes, drops |-> 1]

\* `x_cstring = try!(CString::new(..))`: the local now owns the buffer
BindCString(bytes) == [state |-> "alive", bytes |-> bytes, drops |-> 0]

\* drop glue of a deferred-initialised local: runs only if it was initialised
DropCString(cs) ==
    IF cs.state = "alive"
    THEN [cs EXCEPT !.state = "dropped", !.drops = @ + 1]
    ELSE cs

\* leaving open_dialog's scope, by return or by try!
ScopeExit ==
    /\ filter_list_cstring' = DropCString(filter_list_cstring)
    /\ default_path_cstring' = DropCString(default_path_cstring)

\* what a pointer handed to the native layer refers to
Deref(p) ==
    CASE p = "filter_list_cstring" -> filter_list_cstring
      [] p = "default_path_cstring" -> default_path_cstring
      [] p = "native_path" -> native_path
      [] OTHER -> Uninit

\* nfdpathset_t::default()
nfdpathset_default == [buf |-> NULL, count |-> 0]

NoAlloc == [state |-> "none", bytes |-> <<>>, frees |-> 0]
NoSet == [state |-> "none", entries |-> <<>>, frees |-> 0]

(***************************************************************************)
(* Initial state: dialog() has built a DialogBuilder, nothing is running   *)
(***************************************************************************)
Init ==
    /\ pc = "idle"
    /\ builder = [filter |-> None, default_path |-> None]
    /\ dialog_type = "none"
    /\ filter_list = None
    /\ default_path = None
    /\ filter_list_cstring = Uninit
    /\ default_path_cstring = Uninit
    /\ filter_list_ptr = NULL
    /\ default_path_ptr = NULL
    /\ out_path = NULL
    /\ out_multiple = nfdpathset_default
    /\ result = "none"
    /\ count = 0
    /\ i = 0
    /\ res = <<>>
    /\ ret = NoReturn
    /\ calls = <<>>
    /\ native_path = NoAlloc
    /\ native_set = NoSet
    /\ native_error = <<0>>

(***************************************************************************)
(* DialogBuilder                                                           *)
(***************************************************************************)
DialogBuilder_filter(s) ==
    /\ pc = "idle"
    /\ builder' = [builder EXCEPT !.filter = Some(s)]
    /\ UNCHANGED <<pc, dialog_type, filter_list, default_path,
                   filter_list_cstring, default_path_cstring, filter_list_ptr,
                   default_path_ptr, out_path, out_multiple, result, count, i,
                   res, ret, calls, native_path, native_set, native_error>>

DialogBuilder_default_path(s) ==
    /\ pc = "idle"
    /\ builder' = [builder EXCEPT !.default_path = Some(s)]
    /\ UNCHANGED <<pc, dialog_type, filter_list, default_path,
                   filter_list_cstring, default_path_cstring, filter_list_ptr,
                   default_path_ptr, out_path, out_multiple, result, count, i,
                   res, ret, calls, native_path, native_set, native_error>>

\* entry of open_dialog: the arguments are bound, the locals declared
open_dialog(fl, dp, t) ==
    /\ pc = "idle"
    /\ pc' = "encode_filter_list"
    /\ filter_list' = fl
    /\ default_path' = dp
    /\ dialog_type' = t
    /\ UNCHANGED <<builder, filter_list_cstring, default_path_cstring,
                   filter_list_ptr, default_path_ptr, out_path, out_multiple,
                   result, count, i, res, ret, calls, native_path, native_set,
                   native_error>>

open_file_dialog(fl, dp) == open_dialog(fl, dp, "SingleFile")
open_file_multiple_dialog(fl, dp) == open_dialog(fl, dp, "MultipleFiles")
open_save_dialog(fl, dp) == open_dialog(fl, dp, "SaveFile")

DialogBuilder_open == open_file_dialog(builder.filter, builder.default_path)
DialogBuilder_open_multiple ==
    open_file_multiple_dialog(builder.filter, builder.default_path)
DialogBuilder_save == open_save_dialog(builder.filter, builder.default_path)

(***************************************************************************)
(* open_dialog: encoding                                                   *)
(***************************************************************************)
\* let filter_list_ptr = match filter_list { .. };
EncodeFilterList ==
    /\ pc = "encode_filter_list"
    /\ IF filter_list = None
       THEN /\ filter_list_ptr' = NULL
            /\ pc' = "encode_default_path"
            /\ UNCHANGED <<filter_list_cstring, default_path_cstring, ret>>
       ELSE LET r == CStringNew(filter_list[1]) IN
            IF r.ok
            THEN /\ filter_list_cstring' = BindCString(r.bytes)
                 /\ filter_list_ptr' = "filter_list_cstring"
                 /\ pc' = "encode_default_path"
                 /\ UNCHANGED <<default_path_cstring, ret>>
            ELSE /\ ret' = Err(NulError)
                 /\ ScopeExit
                 /\ pc' = "done"
                 /\ UNCHANGED filter_list_ptr
    /\ UNCHANGED <<builder, dialog_type, filter_list, default_path,
                   default_path_ptr, out_path, out_multiple, result, count, i,
                   res, calls, native_path, native_set, native_error>>

\* let default_path_ptr = match default_path { .. };
EncodeDefaultPath ==
    /\ pc = "encode_default_path"
    /\ IF default_path = None
       THEN /\ default_path_ptr' = NULL
            /\ pc' = "init_out_slots"
            /\ UNCHANGED <<filter_list_cstring, default_path_cstring, ret>>
       ELSE LET r == CStringNew(default_path[1]) IN
            IF r.ok
            THEN /\ default_path_cstring' = BindCString(r.bytes)
                 /\ default_path_ptr' = "default_path_cstring"
                 /\ pc' = "init_out_slots"
                 /\ UNCHANGED <<filter_list_cstring, ret>>
            ELSE /\ ret' = Err(NulError)
                 /\ ScopeExit
                 /\ pc' = "done"
                 /\ UNCHANGED default_path_ptr
    /\ UNCHANGED <<builder, dialog_type, filter_list, default_path,
                   filter_list_ptr, out_path, out_multiple, result, count, i,
                   res, calls, native_path, native_set, native_error>>

\* let mut out_path = null_mut(); let mut out_multiple = nfdpathset_t::default();
InitOutSlots ==
    /\ pc = "init_out_slots"
    /\ out_path' = NULL
    /\ out_multiple' = nfdpathset_default
    /\ pc' = "call"
    /\ UNCHANGED <<builder, dialog_type, filter_list, default_path,
                   filter_list_cstring, default_path_cstring, filter_list_ptr,
                   default_path_ptr, result, count, i, res, ret, calls,
                   native_path, native_set, native_error>>

(***************************************************************************)
(* open_dialog: the native dialog call                                     *)
(***************************************************************************)
\* a dispatch that sends SaveFile to the open dialog
NativeDialogFn_SaveOpens(t) ==
    CASE t = "SingleFile" -> "NFD_OpenDialog"
      [] t = "MultipleFiles" -> "NFD_OpenDialogMultiple"
      [] t = "SaveFile" -> "NFD_OpenDialog"

\* result = match dialog_type { .. }: the native function each arm calls
NativeDialogFn(t) ==
    CASE t = "SingleFile" -> "NFD_OpenDialog"
      [] t = "MultipleFiles" -> "NFD_OpenDialogMultiple"
      [] t = "SaveFile" -> "NFD_SaveDialog"

\* the output slot each arm passes as third argument
OutSlot(t) ==
    CASE t = "SingleFile" -> "ptr_out_path"
      [] t = "MultipleFiles" -> "ptr_out_multyple"
      [] t = "SaveFile" -> "ptr_out_path"

\* the two input pointers in swapped positions
DialogCallArgs_Swapped == <<default_path_ptr, filter_list_ptr>>

\* the first two arguments of every arm: (filter_list_ptr, default_path_ptr)
DialogCallArgs == <<filter_list_ptr, default_path_ptr>>

\* control enters the native dialog function; it blocks until the user acts
NativeDialogEnter ==
    /\ pc = "call"
    /\ calls' = Append(calls, [fn |-> NativeDialogFn(dialog_type),
                               args |-> DialogCallArgs \o <<OutSlot(dialog_type)>>])
    /\ pc' = "in_native"
    /\ UNCHANGED <<builder, dialog_type, filter_list, default_path,
                   filter_list_cstring, default_path_cstring, filter_list_ptr,
                   default_path_ptr, out_path, out_multiple, result, count, i,
                   res, ret, native_path, native_set, native_error>>

\* the slot the running dialog call was given
CurrentSlot == calls[Len(calls)].args[3]

\* the dialog returns NFD_OKAY through a single-path slot: it allocates the
\* path and stores its address in *outPath
NativeReturnsOkayPath(p) ==
    /\ pc = "in_native"
    /\ CurrentSlot = "ptr_out_path"
    /\ native_path' = [state |-> "live", bytes |-> p \o <<0>>, frees |-> 0]
    /\ out_path' = "native_path"
    /\ result' = "NFD_OKAY"
    /\ pc' = "match_result"
    /\ UNCHANGED <<builder, dialog_type, filter_list, default_path,
                   filter_list_cstring, default_path_cstring, filter_list_ptr,
                   default_path_ptr, out_multiple, count, i, res, ret, calls,
                   native_set, native_error>>

\* the dialog returns NFD_OKAY through a collection slot: it allocates the
\* set's buffer and fills in the nfdpathset_t
NativeReturnsOkaySet(ps) ==
    /\ pc = "in_native"
    /\ CurrentSlot = "ptr_out_multyple"
    /\ native_set' = [state |-> "live",
                      entries |-> [k \in DOMAIN ps |-> ps[k] \o <<0>>],
                      frees |-> 0]
    /\ out_multiple' = [buf |-> "native_set", count |-> Len(ps)]
    /\ result' = "NFD_OKAY"
    /\ pc' = "match_result"
    /\ UNCHANGED <<builder, dialog_type, filter_list, default_path,
                   filter_list_cstring, default_path_cstring, filter_list_ptr,
                   default_path_ptr, out_path, count, i, res, ret, calls,
                   native_path, native_error>>

\* the user cancelled: nothing is allocated, the slot is left as it was
NativeReturnsCancel ==
    /\ pc = "in_native"
    /\ result' = "NFD_CANCEL"
    /\ pc' = "match_result"
    /\ UNCHANGED <<builder, dialog_type, filter_list, default_path,
                   filter_list_cstring, default_path_cstring, filter_list_ptr,
                   default_path_ptr, out_path, out_multiple, count, i, res,
                   ret, calls, native_path, native_set, native_error>>

\* the dialog failed: the library records a message in its last-error buffer
NativeReturnsError(m) ==
    /\ pc = "in_native"
    /\ native_error' = m \o <<0>>
    /\ result' = "NFD_ERROR"
    /\ pc' = "match_result"
    /\ UNCHANGED <<builder, dialog_type, filter_list, default_path,
                   filter_list_cstring, default_path_cstring, filter_list_ptr,
                   default_path_ptr, out_path, out_multiple, count, i, res,
                   ret, calls, native_path, native_set>>

(***************************************************************************)
(* open_dialog: decoding                                                   *)
(***************************************************************************)
\* NFD_OKAY, `if dialog_type == DialogType::SingleFile`
DecodeOkaySingle ==
    /\ pc = "match_result"
    /\ result = "NFD_OKAY"
    /\ dialog_type = "SingleFile"
    /\ ret' = Ok(Okay(ToStringLossy(CStrFromPtr(Deref(out_path).bytes))))
    /\ ScopeExit
    /\ pc' = "done"
    /\ UNCHANGED <<builder, dialog_type, filter_list, default_path,
                   filter_list_ptr, default_path_ptr, out_path, out_multiple,
                   result, count, i, res, calls, native_path, native_set,
                   native_error>>

\* NFD_OKAY, the else branch: count = NFD_PathSet_GetCount(&out_multiple)
DecodeOkayGetCount ==
    /\ pc = "match_result"
    /\ result = "NFD_OKAY"
    /\ dialog_type # "SingleFile"
    /\ calls' = Append(calls, [fn |-> "NFD_PathSet_GetCount",
                               args |-> <<"ptr_out_multyple">>])
    /\ count' = out_multiple.count
    /\ res' = <<>>
    /\ i' = 0
    /\ pc' = "loop"
    /\ UNCHANGED <<builder, dialog_type, filter_list, default_path,
                   filter_list_cstring, default_path_cstring, filter_list_ptr,
                   default_path_ptr, out_path, out_multiple, result, ret,
                   native_path, native_set, native_error>>

\* a push at the front of the vector
PushPath_Front(v, path) == <<path>> \o v

\* res.push(path)
PushPath(v, path) == Append(v, path)

\* NFD_PathSet_GetPath(&out_multiple, k): the k-th string of the set's buffer
PathSetGetPath(k) ==
    IF out_multiple.buf = "native_set" /\ k + 1 \in DOMAIN native_set.entries
    THEN native_set.entries[k + 1]
    ELSE <<0>>

\* one iteration of `for i in 0..count`
LoopGetPath ==
    /\ pc = "loop"
    /\ i < count
    /\ calls' = Append(calls, [fn |-> "NFD_PathSet_GetPath",
                               args |-> <<"ptr_out_multyple", i>>])
    /\ res' = PushPath(res, ToStringLossy(CStrFromPtr(PathSetGetPath(i))))
    /\ i' = i + 1
    /\ UNCHANGED <<pc, builder, dialog_type, filter_list, default_path,
                   filter_list_cstring, default_path_cstring, filter_list_ptr,
                   default_path_ptr, out_path, out_multiple, result, count,
                   ret, native_path, native_set, native_error>>

\* NFD_PathSet_Free(p): releases the set's buffer, if it has one
NFD_PathSet_Free(set) ==
    IF out_multiple.buf = "native_set"
    THEN [set EXCEPT !.state = "freed", !.frees = @ + 1]
    ELSE set

\* after the loop: NFD_PathSet_Free(ptr_out_multyple); Ok(OkayMultiple(res))
PathSetFreeAndReturn ==
    /\ pc = "loop"
    /\ i >= count
    /\ calls' = Append(calls, [fn |-> "NFD_PathSet_Free",
                               args |-> <<"ptr_out_multyple">>])
    /\ native_set' = NFD_PathSet_Free(native_set)
    /\ ret' = Ok(OkayMultiple(res))
    /\ ScopeExit
    /\ pc' = "done"
    /\ UNCHANGED <<builder, dialog_type, filter_list, default_path,
                   filter_list_ptr, default_path_ptr, out_path, out_multiple,
                   result, count, i, res, native_path, native_error>>

\* a cancel arm that reports the cancellation as a failure
CancelArm_AsError == Err(NFDError_Error(<<>>))

\* nfdresult_t::NFD_CANCEL => Ok(Response::Cancel)
CancelArm == Ok(Cancel)

DecodeCancel ==
    /\ pc = "match_result"
    /\ result = "NFD_CANCEL"
    /\ ret' = CancelArm
    /\ ScopeExit
    /\ pc' = "done"
    /\ UNCHANGED <<builder, dialog_type, filter_list, default_path,
                   filter_list_ptr, default_path_ptr, out_path, out_multiple,
                   result, count, i, res, calls, native_path, native_set,
                   native_error>>

\* an error arm that stops reading the message at the first invalid byte
ErrorArm_Truncating(msg) ==
    Err(NFDError_Error(SelectSeq(CStrFromPtr(msg), LAMBDA b : b < 128)))

\* Err(NFDError::Error(CStr::from_ptr(NFD_GetError()).to_string_lossy().into_owned()))
ErrorArm(msg) == Err(NFDError_Error(ToStringLossy(CStrFromPtr(msg))))

\* nfdresult_t::NFD_ERROR => Err(..NFD_GetError()..)
DecodeError ==
    /\ pc = "match_result"
    /\ result = "NFD_ERROR"
    /\ calls' = Append(calls, [fn |-> "NFD_GetError", args |-> <<>>])
    /\ ret' = ErrorArm(native_error)
    /\ ScopeExit
    /\ pc' = "done"
    /\ UNCHANGED <<builder, dialog_type, filter_list, default_path,
                   filter_list_ptr, default_path_ptr, out_path, out_multiple,
                   result, count, i, res, native_path, native_set,
                   native_error>>

(***************************************************************************)
(* Specification                                                           *)
(***************************************************************************)
Next ==
    \/ \E s \in HostStrings : DialogBuilder_filter(s)
    \/ \E s \in HostStrings : DialogBuilder_default_path(s)
    \/ DialogBuilder_open
    \/ DialogBuilder_open_multiple
    \/ DialogBuilder_save
    \/ EncodeFilterList
    \/ EncodeDefaultPath
    \/ InitOutSlots
    \/ NativeDialogEnter
    \/ \E p \in NativePathChoices : NativeReturnsOkayPath(p)
    \/ \E ps \in SeqsUpTo(NativePathChoices, MaxPaths) : NativeReturnsOkaySet(ps)
    \/ NativeReturnsCancel
    \/ \E m \in ErrorMessages : NativeReturnsError(m)
    \/ DecodeOkaySingle
    \/ DecodeOkayGetCount
    \/ LoopGetPath
    \/ PathSetFreeAndReturn
    \/ DecodeCancel
    \/ DecodeError

Spec == Init /\ [][Next]_vars

(***************************************************************************)
(* Vocabulary of the properties                                            *)
(***************************************************************************)
DialogFns == {"NFD_OpenDialog", "NFD_OpenDialogMultiple", "NFD_SaveDialog"}
Accessors == {"NFD_PathSet_GetCount", "NFD_PathSet_GetPath"}

CallsTo(fns) == {k \in DOMAIN calls : calls[k].fn \in fns}

\* the optional string is present and holds a zero code point
HasNul(opt) == opt # None /\ \E k \in DOMAIN opt[1] : opt[1][k] = 0

IsPrefix(a, b) == Len(a) <= Len(b) /\ a = SubSeq(b, 1, Len(a))

\* both inputs are absent or free of zero bytes
InputsEncode == ~HasNul(filter_list) /\ ~HasNul(default_path)

\* the dispatch table of the design: mode -> native operation, output slot
DispatchTable ==
    [SingleFile |-> [fn |-> "NFD_OpenDialog", slot |-> "ptr_out_path"],
     MultipleFiles |-> [fn |-> "NFD_OpenDialogMultiple", slot |-> "ptr_out_multyple"],
     SaveFile |-> [fn |-> "NFD_SaveDialog", slot |-> "ptr_out_path"]]

\* a native allocation that was never made, or was made and released once
ReleasedOnce(a) ==
    \/ a.state = "none" /\ a.frees = 0
    \/ a.state = "freed" /\ a.frees = 1

(***************************************************************************)
(* C1: in SaveFile mode, when the save call returned NFD_OKAY, open_dialog *)
(* returns Response::Okay carrying the path read from the single-path      *)
(* slot, never OkayMultiple.                                               *)
(***************************************************************************)
C1_SaveOkayReturnsThePath ==
    (pc = "done" /\ dialog_type = "SaveFile" /\ result = "NFD_OKAY")
        => ret = Ok(Okay(ToStringLossy(CStrFromPtr(Deref(out_path).bytes))))

(***************************************************************************)
(* C2: NFD_PathSet_Free is called at most once, only in MultipleFiles mode *)
(* after NFD_OKAY, and no collection accessor is called after it.          *)
(***************************************************************************)
C2_DestroyOnlyForMultipleOkay ==
    LET frees == CallsTo({"NFD_PathSet_Free"}) IN
    /\ Cardinality(frees) <= 1
    /\ frees # {} => dialog_type = "MultipleFiles" /\ result = "NFD_OKAY"
    /\ \A k \in frees : \A j \in CallsTo(Accessors) : j < k

ExpectedSetCalls(N) ==
    <<[fn |-> "NFD_PathSet_GetCount", args |-> <<"ptr_out_multyple">>]>>
    \o [k \in 1..N |-> [fn |-> "NFD_PathSet_GetPath",
                        args |-> <<"ptr_out_multyple", k - 1>>]]
    \o <<[fn |-> "NFD_PathSet_Free", args |-> <<"ptr_out_multyple">>]>>

(***************************************************************************)
(* C3: in MultipleFiles mode after NFD_OKAY with N entries, the native     *)
(* calls after the dialog call are GetCount, GetPath(0) .. GetPath(N-1)    *)
(* and Free, in that order and once each; the result is OkayMultiple of    *)
(* the N entries in index order (the empty sequence when N = 0).           *)
(***************************************************************************)
C3_MultipleOkayReadsThenFrees ==
    (dialog_type = "MultipleFiles" /\ result = "NFD_OKAY") =>
        LET N == Len(native_set.entries)
            made == Tail(calls)
        IN /\ IsPrefix(made, ExpectedSetCalls(N))
           /\ pc = "done" =>
                /\ made = ExpectedSetCalls(N)
                /\ native_set.frees = 1
                /\ ret.tag = "Ok"
                /\ ret.val.variant = "OkayMultiple"
                /\ Len(ret.val.paths) = N
                /\ \A k \in 1..N :
                     ret.val.paths[k] = ToStringLossy(CStrFromPtr(native_set.entries[k]))

C3_Witness ==
    /\ pc = "done"
    /\ dialog_type = "MultipleFiles"
    /\ result = "NFD_OKAY"
    /\ Len(native_set.entries) = 2
    /\ native_set.entries[1] # native_set.entries[2]
    /\ ret = Ok(OkayMultiple(<<<<97>>, <<233, 65533>>>>))

(***************************************************************************)
(* C4: after NFD_CANCEL, in every mode, open_dialog returns                *)
(* Ok(Response::Cancel) and makes no native call after the dialog call.    *)
(***************************************************************************)
C4_CancelIsOkAndQuiet ==
    result = "NFD_CANCEL" =>
        /\ pc \in {"match_result", "done"}
        /\ Len(calls) = 1
        /\ calls[1].fn \in DialogFns
        /\ pc = "done" => ret = Ok(Cancel)

C4_Witness ==
    /\ pc = "done"
    /\ result = "NFD_CANCEL"
    /\ dialog_type = "MultipleFiles"
    /\ ret = Ok(Cancel)

(***************************************************************************)
(* C5: after NFD_ERROR, in every mode, the next and last native call is    *)
(* NFD_GetError, made once, and open_dialog fails with the message the     *)
(* error buffer held at that moment (decoded to a host string).            *)
(***************************************************************************)
C5_ErrorReadsMessageAtOnce ==
    result = "NFD_ERROR" =>
        /\ pc \in {"match_result", "done"}
        /\ pc = "match_result" => Len(calls) = 1
        /\ pc = "done" =>
             /\ Len(calls) = 2
             /\ calls[1].fn \in DialogFns
             /\ calls[2] = [fn |-> "NFD_GetError", args |-> <<>>]
             /\ ret = Err(NFDError_Error(ToStringLossy(CStrFromPtr(native_error))))

C5_Witness ==
    /\ pc = "done"
    /\ result = "NFD_ERROR"
    /\ dialog_type = "SaveFile"
    /\ native_error = <<101, 255, 0>>
    /\ ret = Err(NFDError_Error(<<101, 65533>>))

(***************************************************************************)
(* C6: if the filter or the default path is present and holds a zero byte, *)
(* open_dialog fails and makes no native call at all, whichever of the two *)
(* is the bad one.                                                         *)
(***************************************************************************)
C6_NulInputFailsBeforeAnyCall ==
    (pc # "idle" /\ (HasNul(filter_list) \/ HasNul(default_path))) =>
        /\ pc \in {"encode_filter_list", "encode_default_path", "done"}
        /\ calls = <<>>
        /\ pc = "done" => ret.tag = "Err"

C6_Witness ==
    /\ pc = "done"
    /\ filter_list = Some(<<97>>)
    /\ default_path = Some(<<97, 0>>)
    /\ ret.tag = "Err"
    /\ calls = <<>>

(***************************************************************************)
(* C7: when both inputs encode, open_dialog makes exactly one dialog call, *)
(* the one the dispatch table gives for the mode, with that mode's output  *)
(* slot; no outcome leads to a second dialog call.                         *)
(***************************************************************************)
C7_OneDialogCallPerDispatchTable ==
    /\ Cardinality(CallsTo(DialogFns)) <= 1
    /\ (InputsEncode /\ pc \in {"in_native", "match_result", "loop", "done"}) =>
         /\ CallsTo(DialogFns) = {1}
         /\ calls[1].fn = DispatchTable[dialog_type].fn
         /\ calls[1].args[3] = DispatchTable[dialog_type].slot

C7_Witness ==
    /\ pc = "done"
    /\ dialog_type = "SaveFile"
    /\ result = "NFD_OKAY"
    /\ calls[1].fn = "NFD_SaveDialog"
    /\ calls[1].args[3] = "ptr_out_path"

PtrEncodes(p, opt) ==
    IF opt = None
    THEN p = NULL
    ELSE /\ p # NULL
         /\ LET b == Deref(p).bytes IN
            /\ b # <<>>
            /\ b[Len(b)] = 0
            /\ Len(CStrFromPtr(b)) = Len(b) - 1
            /\ ToStringLossy(CStrFromPtr(b)) = opt[1]

(***************************************************************************)
(* C8: for inputs without a zero byte encoding succeeds, and each pointer  *)
(* passed to the dialog call is null exactly when its input is absent and  *)
(* otherwise points to a zero-terminated buffer that reads back as the     *)
(* input (a present empty string gives a non-null pointer); the filter is  *)
(* the first argument and the default path the second.                     *)
(***************************************************************************)
C8_PointersRoundTrip ==
    /\ (pc = "done" /\ InputsEncode) => ret # Err(NulError)
    /\ pc = "in_native" =>
         /\ PtrEncodes(calls[1].args[1], filter_list)
         /\ PtrEncodes(calls[1].args[2], default_path)

C8_Witness ==
    /\ pc = "in_native"
    /\ filter_list = Some(<<>>)
    /\ default_path = Some(<<233, 97>>)
    /\ calls[1].args[1] = "filter_list_cstring"
    /\ filter_list_cstring.bytes = <<0>>
    /\ default_path_cstring.bytes = <<195, 169, 97, 0>>

(***************************************************************************)
(* C9: every native allocation an NFD_OKAY result hands back (the path,    *)
(* the path set) has been released exactly once when open_dialog returns.  *)
(***************************************************************************)
C9_OutputAllocationsReleasedOnce ==
    pc = "done" => ReleasedOnce(native_path) /\ ReleasedOnce(native_set)

FilterEncoded == filter_list # None /\ ~HasNul(filter_list)
DefaultPathEncoded ==
    default_path # None /\ ~HasNul(default_path) /\ ~HasNul(filter_list)

(***************************************************************************)
(* C10: while the native dialog call is in progress every non-null input   *)
(* pointer refers to a live buffer; a buffer is released only when         *)
(* open_dialog leaves its scope, and every buffer that was created is      *)
(* released exactly once on every exit, the early exit in which the filter *)
(* encoded and the default path did not included.                          *)
(***************************************************************************)
C10_BuffersOutliveTheCall ==
    /\ pc = "in_native" =>
         \A k \in 1..2 :
            calls[1].args[k] # NULL => Deref(calls[1].args[k]).state = "alive"
    /\ \A cs \in {filter_list_cstring, default_path_cstring} :
         /\ cs.drops <= 1
         /\ cs.drops = 1 => pc = "done"
         /\ pc = "done" => cs.state # "alive"
    /\ pc = "done" =>
         /\ filter_list_cstring.drops = (IF FilterEncoded THEN 1 ELSE 0)
         /\ default_path_cstring.drops = (IF DefaultPathEncoded THEN 1 ELSE 0)

C10_Witness ==
    /\ pc = "in_native"
    /\ calls[1].args[1] = "filter_list_cstring"
    /\ calls[1].args[2] = "default_path_cstring"
    /\ filter_list_cstring.state = "alive"
    /\ default_path_cstring.state = "alive"

====
